---- MODULE Spec2Model ----
(***************************************************************************)
(* Model of merf/merf.py: class MERF (mixed effects random forest).        *)
(*                                                                         *)
(* One MERF instance, its configuration fixed by the constructor, and the  *)
(* calls made on it: fit, an EM loop taken one block of the loop body at a *)
(* time, and predict.                                                      *)
(*                                                                         *)
(* Python objects that the code shares by reference (the pandas table      *)
(* b_hat_df) live in `heap`; names and list entries hold references into   *)
(* it, so that an append without a copy and an append of a copy differ.    *)
(*                                                                         *)
(* The random forest is an external collaborator: a regressor object is    *)
(* named by the number of the rf.fit call that trained it, and its         *)
(* predictions are a fixed function of that number and the row.  The       *)
(* closed-form linear algebra of the M-step is not recomputed: an estimate *)
(* is stood for by a value that differs from one iteration to the next.    *)
(* The regressor is taken to fit without raising.                          *)
(* The generalized log likelihood is drawn from GllVals, which holds a     *)
(* negative value and zero so that both outcomes of the early-stop         *)
(* comparison and the division by a zero GLL occur.                        *)
(***************************************************************************)
EXTENDS Integers, Sequences, FiniteSets, TLC

\* ---------------------------------------------------------------- bounds
MaxIter == 3       \* largest max_iterations a model is constructed with
MaxFits == 2       \* fit calls that pass the input checks, per instance
MaxHistory == 8    \* a fit is started only if its snapshots fit in this many
QDim == 2          \* q, the number of columns of Z

\* ------------------------------------------------------------ input sets
\* cluster label vectors handed to fit
ClusterVectors == {<<1>>, <<2, 2>>, <<1, 2>>}
\* row counts of X, Z and y handed to fit
RowCounts == {1, 2}
\* gll_early_stop_threshold values other than None
ThrVals == {1, 1000000}
\* values the GLL of an iteration takes
GllVals == {-2, 0}
\* predict is handed two rows: X and Z are fixed, the cluster labels vary;
\* label 3 is never a training label
PredictLabels == {1, 2, 3}
PredictX == <<0, 1>>
PredictZ == [r \in 1..2 |-> [k \in 1..QDim |-> r + k - 1]]
PredictInputs ==
    {[r \in 1..2 |-> [x |-> PredictX[r], z |-> PredictZ[r], cluster |-> cl[r]]] :
        cl \in [1..2 -> PredictLabels]}

\* ------------------------------------------------------- optional values
\* Python's None and a present value
None == << >>
Some(v) == <<v>>
Val(o) == o[1]

\* ----------------------------------------------------------------- state
VARIABLES
    \* constructor arguments (merf.py:17-21)
    max_iterations, gll_early_stop_threshold,
    \* fitted state (merf.py:23-25)
    cluster_counts, trained_rf, trained_b,
    \* histories (merf.py:27-30); b_hat_history holds references into heap
    b_hat_history, sigma2_hat_history, D_hat_history, gll_history,
    \* the pandas tables allocated so far: reference -> (cluster id -> b_hat_i)
    heap,
    \* number of rf.fit calls made on the regressor collaborator
    rf_fit_count,
    \* position inside fit, "idle" between calls
    pc,
    \* locals of the running fit
    counts, iteration, b_hat_df, sigma2_hat, D_hat, stop_flag, iter_begun, rf,
    \* lengths of b_hat_history and gll_history when the running fit began
    hist_base, gll_base,
    \* index into gll_history read as gll_history[-2] by the running fit's
    \* latest early-stop comparison, 0 when it has made none
    cmp_index,
    \* one record per fit call that passed the input checks and has ended
    fit_log,
    \* outcome of the latest call
    result

config == <<max_iterations, gll_early_stop_threshold>>
fitted == <<cluster_counts, trained_rf, trained_b>>
histories == <<b_hat_history, sigma2_hat_history, D_hat_history, gll_history>>
locals == <<counts, iteration, b_hat_df, sigma2_hat, D_hat, stop_flag, iter_begun, rf,
            hist_base, gll_base, cmp_index>>
vars == <<config, fitted, histories, heap, rf_fit_count, pc, locals, fit_log, result>>

\* ------------------------------------------------------------- helpers
Abs(n) == IF n < 0 THEN -n ELSE n

\* clusters.value_counts(): cluster id -> number of rows
ValueCounts(clusters) ==
    [c \in {clusters[i] : i \in DOMAIN clusters} |->
        Cardinality({i \in DOMAIN clusters : clusters[i] = c})]

\* pd.DataFrame(np.zeros((n_clusters, q)), index=cluster_counts.index)
ZeroTable(cc) == [c \in DOMAIN cc |-> [k \in 1..QDim |-> 0]]

\* np.eye(q)
Eye == [i \in 1..QDim |-> [j \in 1..QDim |-> IF i = j THEN 1 ELSE 0]]

\* stand-ins for the estimates the M-step of the given iteration computes:
\* b_hat_i (a q-vector), sigma2_hat (a scalar) and D_hat (a q x q matrix)
MStepB(it) == [k \in 1..QDim |-> it + k - 1]
MStepSigma2(it) == 1 + it
MStepD(it) == [i \in 1..QDim |-> [j \in 1..QDim |-> (1 + it) * Eye[i][j]]]

\* u.dot(v) for two vectors of the same length
RECURSIVE DotUpTo(_, _, _)
DotUpTo(u, v, n) == IF n = 0 THEN 0 ELSE DotUpTo(u, v, n - 1) + u[n] * v[n]
Dot(u, v) == DotUpTo(u, v, Len(u))

\* trained_rf.predict(X) for one row
RfPredict(model, x) == 10 * model + x

NoResult == [op |-> "none", status |-> "none", rows |-> << >>, y_hat |-> << >>]

\* --------------------------------------------------------------- __init__
Init ==
    /\ max_iterations \in 0..MaxIter
    /\ gll_early_stop_threshold \in {None} \cup {Some(t) : t \in ThrVals}
    /\ cluster_counts = None
    /\ trained_rf = None
    /\ trained_b = None
    /\ b_hat_history = << >>
    /\ sigma2_hat_history = << >>
    /\ D_hat_history = << >>
    /\ gll_history = << >>
    /\ heap = << >>
    /\ rf_fit_count = 0
    /\ pc = "idle"
    /\ counts = None
    /\ iteration = 0
    /\ b_hat_df = 0
    /\ sigma2_hat = 0
    /\ D_hat = Eye
    /\ stop_flag = FALSE
    /\ iter_begun = FALSE
    /\ rf = None
    /\ hist_base = 0
    /\ gll_base = 0
    /\ cmp_index = 0
    /\ fit_log = << >>
    /\ result = NoResult

\* the frame of a fit that has ended
ClearLocals ==
    /\ counts' = None
    /\ iteration' = 0
    /\ b_hat_df' = 0
    /\ sigma2_hat' = 0
    /\ D_hat' = Eye
    /\ stop_flag' = FALSE
    /\ iter_begun' = FALSE
    /\ rf' = None
    /\ hist_base' = 0
    /\ gll_base' = 0
    /\ cmp_index' = 0

\* -------------------------------------------------------------------- fit
\* the three asserts of the input checks
InputChecksPass(nX, nZ, ny, clusters) ==
    /\ nZ = nX
    /\ ny = nX
    /\ Len(clusters) = nX

\* variant of FitInputCheckFail: the pre-loop history appends come before the asserts
FitInputCheckLate(nX, nZ, ny, clusters) ==
    /\ pc = "idle"
    /\ ~InputChecksPass(nX, nZ, ny, clusters)
    /\ heap' = Append(heap, ZeroTable(ValueCounts(clusters)))
    /\ b_hat_history' = Append(b_hat_history, Len(heap) + 1)
    /\ sigma2_hat_history' = Append(sigma2_hat_history, 1)
    /\ D_hat_history' = Append(D_hat_history, Eye)
    /\ result' = [NoResult EXCEPT !.op = "fit", !.status = "AssertionError"]
    /\ UNCHANGED <<config, fitted, gll_history, rf_fit_count, pc, locals, fit_log>>

\* fit, an assert of the input checks fails: AssertionError
FitInputCheckFail(nX, nZ, ny, clusters) ==
    /\ pc = "idle"
    /\ ~InputChecksPass(nX, nZ, ny, clusters)
    /\ result' = [NoResult EXCEPT !.op = "fit", !.status = "AssertionError"]
    /\ UNCHANGED <<config, fitted, histories, heap, rf_fit_count, pc, locals, fit_log>>

\* fit, input checks pass: initialization and the pre-loop history appends
FitInit(nX, nZ, ny, clusters) ==
    /\ pc = "idle"
    /\ Len(fit_log) < MaxFits
    /\ Len(b_hat_history) + max_iterations + 1 <= MaxHistory
    /\ InputChecksPass(nX, nZ, ny, clusters)
    /\ counts' = Some(ValueCounts(clusters))
    /\ iteration' = 0
    /\ heap' = Append(heap, ZeroTable(ValueCounts(clusters)))
    /\ b_hat_df' = Len(heap) + 1
    /\ sigma2_hat' = 1
    /\ D_hat' = Eye
    /\ b_hat_history' = Append(b_hat_history, Len(heap) + 1)
    /\ sigma2_hat_history' = Append(sigma2_hat_history, 1)
    /\ D_hat_history' = Append(D_hat_history, Eye)
    /\ stop_flag' = FALSE
    /\ iter_begun' = FALSE
    /\ rf' = None
    /\ hist_base' = Len(b_hat_history)
    /\ gll_base' = Len(gll_history)
    /\ cmp_index' = 0
    /\ pc' = "while"
    /\ result' = NoResult
    /\ UNCHANGED <<config, fitted, gll_history, rf_fit_count, fit_log>>

\* variant of WhileCond: the stop flag is not consulted
WhileCondNoStop == iteration < max_iterations

\* variant of WhileCond: the cap is reached one iteration early
WhileCondOffByOne == iteration + 1 < max_iterations /\ ~stop_flag

\* while iteration < self.max_iterations and not stop_flag
WhileCond == iteration < max_iterations /\ ~stop_flag

WhileBody ==
    /\ pc = "while"
    /\ WhileCond
    /\ iteration' = iteration + 1
    /\ pc' = "estep"
    /\ UNCHANGED <<config, fitted, histories, heap, rf_fit_count, counts, b_hat_df,
                   sigma2_hat, D_hat, stop_flag, iter_begun, rf, hist_base, gll_base,
                   cmp_index, fit_log, result>>

WhileExit ==
    /\ pc = "while"
    /\ ~WhileCond
    /\ pc' = "store"
    /\ UNCHANGED <<config, fitted, histories, heap, rf_fit_count, locals, fit_log, result>>

\* E-step and the regression: a new regressor is fitted on (X, y_star)
EStep ==
    /\ pc = "estep"
    /\ rf_fit_count' = rf_fit_count + 1
    /\ rf' = Some(rf_fit_count + 1)
    /\ pc' = "mstep"
    /\ UNCHANGED <<config, fitted, histories, heap, counts, iteration, b_hat_df,
                   sigma2_hat, D_hat, stop_flag, iter_begun, hist_base, gll_base,
                   cmp_index, fit_log, result>>

\* M-step: b_hat_df.loc[cluster_id, :] = b_hat_i for every cluster, written
\* into the table b_hat_df refers to; then sigma2_hat and D_hat are rebound
MStep ==
    /\ pc = "mstep"
    /\ heap' = [heap EXCEPT ![b_hat_df] =
                    [c \in DOMAIN Val(counts) |-> MStepB(iteration)]]
    /\ sigma2_hat' = MStepSigma2(iteration)
    /\ D_hat' = MStepD(iteration)
    /\ pc' = "history"
    /\ UNCHANGED <<config, fitted, histories, rf_fit_count, counts, iteration, b_hat_df,
                   stop_flag, iter_begun, rf, hist_base, gll_base, cmp_index, fit_log,
                   result>>

\* variant of HistoryAppend: D_hat is not appended
HistoryAppendNoD ==
    /\ pc = "history"
    /\ heap' = Append(heap, heap[b_hat_df])
    /\ b_hat_history' = Append(b_hat_history, Len(heap) + 1)
    /\ sigma2_hat_history' = Append(sigma2_hat_history, sigma2_hat)
    /\ pc' = "gll"
    /\ UNCHANGED <<config, fitted, D_hat_history, gll_history, rf_fit_count, locals,
                   fit_log, result>>

\* the history appends of the loop body; b_hat_df.copy() allocates a table
HistoryAppend ==
    /\ pc = "history"
    /\ heap' = Append(heap, heap[b_hat_df])
    /\ b_hat_history' = Append(b_hat_history, Len(heap) + 1)
    /\ sigma2_hat_history' = Append(sigma2_hat_history, sigma2_hat)
    /\ D_hat_history' = Append(D_hat_history, D_hat)
    /\ pc' = "gll"
    /\ UNCHANGED <<config, fitted, gll_history, rf_fit_count, locals, fit_log, result>>

\* np.abs((gll - prev) / prev) < threshold; a division by a zero GLL gives
\* inf or nan, which is below no threshold
RelChangeBelow(gll, prev, threshold) ==
    /\ prev # 0
    /\ Abs(gll - prev) < threshold * Abs(prev)

\* variant of Compares: whether a previous GLL exists is read off gll_history
\* instead of the iter_begun flag
ComparesAnyPrev == gll_early_stop_threshold # None /\ Len(gll_history) >= 1

\* the early-stop block: TRUE when it makes the comparison
Compares == gll_early_stop_threshold # None /\ iter_begun

\* GLL computation, gll_history append and the early-stop block
GllCheck(gll) ==
    /\ pc = "gll"
    /\ gll_history' = Append(gll_history, gll)
    /\ iter_begun' = (iter_begun \/ gll_early_stop_threshold # None)
    /\ cmp_index' = IF Compares THEN Len(gll_history) ELSE cmp_index
    /\ stop_flag' = IF Compares
                    THEN RelChangeBelow(gll, gll_history[Len(gll_history)],
                                        Val(gll_early_stop_threshold))
                    ELSE stop_flag
    /\ pc' = "while"
    /\ UNCHANGED <<config, fitted, b_hat_history, sigma2_hat_history, D_hat_history,
                   heap, rf_fit_count, counts, iteration, b_hat_df, sigma2_hat, D_hat,
                   rf, hist_base, gll_base, fit_log, result>>

\* after the loop, rf is bound: the model is stored and fit returns self
FitStore ==
    /\ pc = "store"
    /\ rf # None
    /\ cluster_counts' = counts
    /\ trained_rf' = rf
    /\ trained_b' = Some(b_hat_df)
    /\ fit_log' = Append(fit_log, [iters |-> iteration, ok |-> TRUE])
    /\ result' = [NoResult EXCEPT !.op = "fit", !.status = "ok"]
    /\ pc' = "idle"
    /\ ClearLocals
    /\ UNCHANGED <<config, histories, heap, rf_fit_count>>

\* variant of FitStoreUnbound: rf is bound to None before the loop, so the
\* store goes through and fit returns
FitStoreNoneRf ==
    /\ pc = "store"
    /\ rf = None
    /\ cluster_counts' = counts
    /\ trained_rf' = None
    /\ trained_b' = Some(b_hat_df)
    /\ fit_log' = Append(fit_log, [iters |-> iteration, ok |-> TRUE])
    /\ result' = [NoResult EXCEPT !.op = "fit", !.status = "ok"]
    /\ pc' = "idle"
    /\ ClearLocals
    /\ UNCHANGED <<config, histories, heap, rf_fit_count>>

\* after the loop, rf was never assigned (the loop body did not run):
\* self.cluster_counts is assigned, then reading rf raises UnboundLocalError
FitStoreUnbound ==
    /\ pc = "store"
    /\ rf = None
    /\ cluster_counts' = counts
    /\ fit_log' = Append(fit_log, [iters |-> iteration, ok |-> FALSE])
    /\ result' = [NoResult EXCEPT !.op = "fit", !.status = "UnboundLocalError"]
    /\ pc' = "idle"
    /\ ClearLocals
    /\ UNCHANGED <<config, trained_rf, trained_b, histories, heap, rf_fit_count>>

\* ---------------------------------------------------------------- predict
\* variant of CorrectCluster: the row mask is not applied
CorrectClusterAllRows(y_hat, rows, cluster_id, b_i) ==
    [r \in DOMAIN y_hat |-> y_hat[r] + Dot(rows[r].z, b_i)]

\* one pass of the correction loop: y_hat[indices_i] += Z_i.dot(b_i)
CorrectCluster(y_hat, rows, cluster_id, b_i) ==
    [r \in DOMAIN y_hat |->
        IF rows[r].cluster = cluster_id THEN y_hat[r] + Dot(rows[r].z, b_i)
        ELSE y_hat[r]]

\* for cluster_id in self.cluster_counts.index: the pass is skipped when
\* the mask is empty (len(indices_i) == 0, that is, predict was given no rows)
RECURSIVE ApplyCorrections(_, _, _, _)
ApplyCorrections(y_hat, rows, ids, b) ==
    IF ids = {} THEN y_hat
    ELSE LET cluster_id == CHOOSE c \in ids : \A d \in ids : c <= d
             corrected == IF Len(rows) = 0 THEN y_hat
                          ELSE CorrectCluster(y_hat, rows, cluster_id, b[cluster_id])
         IN ApplyCorrections(corrected, rows, ids \ {cluster_id}, b)

\* variant of Predict: the correction is accumulated into the stored table
PredictInPlace(rows) ==
    /\ pc = "idle"
    /\ trained_rf # None
    /\ LET y_hat == [r \in DOMAIN rows |-> RfPredict(Val(trained_rf), rows[r].x)]
           b == heap[Val(trained_b)]
       IN /\ result' = [op |-> "predict", status |-> "ok", rows |-> rows,
                        y_hat |-> ApplyCorrections(y_hat, rows,
                                                   DOMAIN Val(cluster_counts), b)]
          /\ heap' = [heap EXCEPT ![Val(trained_b)] =
                          [c \in DOMAIN b |->
                              IF \E r \in DOMAIN rows : rows[r].cluster = c
                              THEN [k \in 1..QDim |-> b[c][k] + 1]
                              ELSE b[c]]]
    /\ UNCHANGED <<config, fitted, histories, rf_fit_count, pc, locals, fit_log>>

\* predict before any fit has stored a regressor: NotFittedError
PredictNotFitted(rows) ==
    /\ pc = "idle"
    /\ trained_rf = None
    /\ result' = [NoResult EXCEPT !.op = "predict", !.status = "NotFittedError",
                                  !.rows = rows]
    /\ UNCHANGED <<config, fitted, histories, heap, rf_fit_count, pc, locals, fit_log>>

\* predict on a fitted model
Predict(rows) ==
    /\ pc = "idle"
    /\ trained_rf # None
    /\ LET y_hat == [r \in DOMAIN rows |-> RfPredict(Val(trained_rf), rows[r].x)]
       IN result' = [op |-> "predict", status |-> "ok", rows |-> rows,
                     y_hat |-> ApplyCorrections(y_hat, rows, DOMAIN Val(cluster_counts),
                                                heap[Val(trained_b)])]
    /\ UNCHANGED <<config, fitted, histories, heap, rf_fit_count, pc, locals, fit_log>>

\* ------------------------------------------------------------------- spec
Next ==
    \/ \E nX \in RowCounts, nZ \in RowCounts, ny \in RowCounts, cl \in ClusterVectors :
          FitInputCheckFail(nX, nZ, ny, cl)
    \/ \E nX \in RowCounts, nZ \in RowCounts, ny \in RowCounts, cl \in ClusterVectors :
          FitInit(nX, nZ, ny, cl)
    \/ WhileBody
    \/ WhileExit
    \/ EStep
    \/ MStep
    \/ HistoryAppend
    \/ \E gll \in GllVals : GllCheck(gll)
    \/ FitStore
    \/ FitStoreUnbound
    \/ \E rows \in PredictInputs : PredictNotFitted(rows)
    \/ \E rows \in PredictInputs : Predict(rows)

Spec == Init /\ [][Next]_vars

\* ================================================================ claims
Min(a, b) == IF a < b THEN a ELSE b

\* the GLL values the running fit has recorded so far
FitGll == SubSeq(gll_history, gll_base + 1, Len(gll_history))

\* the threshold is set and larger than every relative GLL change of the
\* running fit (a change from a zero GLL is infinite: larger than any threshold)
ThresholdAboveChanges ==
    /\ gll_early_stop_threshold # None
    /\ \A i \in 2..Len(FitGll) :
          /\ FitGll[i - 1] # 0
          /\ Abs(FitGll[i] - FitGll[i - 1]) <
                Val(gll_early_stop_threshold) * Abs(FitGll[i - 1])

InFit == pc # "idle"

AllOk(n) == Len(fit_log) = n /\ \A i \in 1..n : fit_log[i].ok

\* C1, as stated: with a threshold larger than any relative GLL change, the
\* loop of fit is left after exactly 2 iterations, whatever max_iterations is
\* (stated for the fit calls that go on to return: rf is bound).
C1_AsStated ==
    (pc = "store" /\ rf # None /\ ThresholdAboveChanges) => iteration = 2

\* C1, amended: with a threshold larger than any relative GLL change, the loop
\* of fit is left after exactly min(2, max_iterations) iterations; the first
\* iteration makes no comparison and does not set the stop flag; when
\* max_iterations >= 2 the second iteration sets the stop flag, and when
\* max_iterations < 2 the loop ends on the cap with the stop flag unset.
C1_MinTwoIterations ==
    /\ (InFit /\ iteration <= 1) => (~stop_flag /\ cmp_index = 0)
    /\ (pc = "store" /\ ThresholdAboveChanges) =>
          /\ iteration = Min(2, max_iterations)
          /\ stop_flag = (max_iterations >= 2)

C1_Witness ==
    /\ pc = "store"
    /\ gll_early_stop_threshold = Some(1000000)
    /\ ThresholdAboveChanges
    /\ max_iterations = 3
    /\ iteration = 2
    /\ stop_flag

\* C2: with gll_early_stop_threshold None the stop flag is never set, and the
\* loop of every fit that passes the input checks is left only when the
\* iteration counter equals max_iterations; one regressor is fitted per
\* iteration.
C2_RunsMaxIterations ==
    gll_early_stop_threshold = None =>
        /\ ~stop_flag
        /\ pc = "store" => iteration = max_iterations
        /\ \A i \in DOMAIN fit_log : fit_log[i].iters = max_iterations
        /\ ~InFit => rf_fit_count = Len(fit_log) * max_iterations

C2_Witness ==
    /\ gll_early_stop_threshold = None
    /\ pc = "store"
    /\ max_iterations >= 2
    /\ iteration = max_iterations

\* C3: after the first fit of an instance has returned, having run k
\* iterations (k regressor fits), the b_hat, sigma2_hat and D_hat histories
\* hold k + 1 entries each and gll_history holds k.
C3_HistoryLengths ==
    (pc = "idle" /\ AllOk(1)) =>
        LET k == fit_log[1].iters
        IN /\ k = rf_fit_count
           /\ Len(b_hat_history) = k + 1
           /\ Len(sigma2_hat_history) = k + 1
           /\ Len(D_hat_history) = k + 1
           /\ Len(gll_history) = k

C3_Witness ==
    /\ pc = "idle"
    /\ AllOk(1)
    /\ fit_log[1].iters >= 2
    /\ result.op = "fit"
    /\ Len(gll_history) = fit_log[1].iters

\* C4: every fit call that passes the input checks returns, with a regressor
\* stored, a b_hat entry for every training cluster, the cluster row counts
\* stored and the four histories non-empty.
C4_FitAlwaysUsable ==
    (result.op = "fit" /\ result.status # "AssertionError") =>
        /\ result.status = "ok"
        /\ trained_rf # None
        /\ cluster_counts # None
        /\ trained_b # None
        /\ DOMAIN heap[Val(trained_b)] = DOMAIN Val(cluster_counts)
        /\ b_hat_history # << >>
        /\ sigma2_hat_history # << >>
        /\ D_hat_history # << >>
        /\ gll_history # << >>

\* C5: a fit call that fails an input check fits no regressor and leaves the
\* four histories, the tables they refer to, trained_rf, trained_b and
\* cluster_counts as they were.
C5_ShapeMismatchTouchesNothing ==
    [][result'.status = "AssertionError" =>
          /\ rf_fit_count' = rf_fit_count
          /\ histories' = histories
          /\ fitted' = fitted
          /\ heap' = heap]_vars

C5_Witness ==
    /\ result.op = "fit"
    /\ result.status = "AssertionError"
    /\ rf_fit_count = 0
    /\ b_hat_history = << >>
    /\ trained_rf = None

\* C6: no regressor is stored exactly as long as no fit call has returned;
\* a predict call fails with NotFittedError, without a prediction, exactly
\* when no fit call has returned, failed fit calls included.
C6_NotFittedUntilFitReturns ==
    LET noFitReturned == \A i \in DOMAIN fit_log : ~fit_log[i].ok
    IN /\ (trained_rf = None) <=> noFitReturned
       /\ result.op = "predict" =>
             /\ (result.status = "NotFittedError") <=> noFitReturned
             /\ (result.status = "ok") <=> ~noFitReturned
             /\ result.status = "NotFittedError" => result.y_hat = << >>

C6_Witness ==
    /\ result.op = "predict"
    /\ result.status = "NotFittedError"
    /\ Len(fit_log) >= 1
    /\ cluster_counts # None

\* C7: a predict call on a fitted model changes nothing of the model (the
\* regressor, trained_b and the table it refers to, cluster_counts, the four
\* histories), and a predict call that follows a predict call with the same
\* input returns the same prediction.
C7_PredictLeavesModel ==
    [][(result'.op = "predict" /\ result'.status = "ok") =>
          /\ fitted' = fitted
          /\ histories' = histories
          /\ heap' = heap
          /\ rf_fit_count' = rf_fit_count
          /\ (result.op = "predict" /\ result.status = "ok"
                /\ result.rows = result'.rows) => result'.y_hat = result.y_hat]_vars

\* the raw regressor prediction of a row of the latest predict call
Raw(r) == RfPredict(Val(trained_rf), result.rows[r].x)

\* a row of the latest predict call whose label is a training cluster
Seen(r) == result.rows[r].cluster \in DOMAIN Val(cluster_counts)

C7_Witness ==
    /\ result.op = "predict"
    /\ result.status = "ok"
    /\ \E r \in DOMAIN result.rows : Seen(r) /\ result.y_hat[r] # Raw(r)

\* C8: predict returns one prediction per row: the raw regressor prediction
\* for a row whose label is no training cluster, and the raw prediction plus
\* Z_row . b_hat_i, once, for a row whose label is training cluster i.
C8_CorrectionPerRow ==
    (result.op = "predict" /\ result.status = "ok") =>
        /\ DOMAIN result.y_hat = DOMAIN result.rows
        /\ \A r \in DOMAIN result.rows :
              result.y_hat[r] =
                 IF Seen(r)
                 THEN Raw(r) + Dot(result.rows[r].z,
                                   heap[Val(trained_b)][result.rows[r].cluster])
                 ELSE Raw(r)

C8_Witness ==
    /\ result.op = "predict"
    /\ result.status = "ok"
    /\ Cardinality(DOMAIN Val(cluster_counts)) = 2
    /\ \E r1, r2 \in DOMAIN result.rows :
          /\ ~Seen(r1)
          /\ result.y_hat[r1] = Raw(r1)
          /\ Seen(r2)
          /\ result.y_hat[r2] # Raw(r2)

\* C9: an entry of b_hat_history holds, from then on, the coefficients it held
\* when it was appended, and the first entry of the running fit is the
\* all-zero table.
C9_HistoryNeverMutated ==
    [][/\ \A j \in DOMAIN b_hat_history :
             heap'[b_hat_history'[j]] = heap[b_hat_history[j]]
       /\ pc' # "idle" =>
             heap'[b_hat_history'[hist_base' + 1]] = ZeroTable(Val(counts'))]_vars

\* C10: a fit on a fitted instance appends to the histories: the running fit
\* finds the earlier entries in place; after two fits that ran k1 and k2
\* iterations the b_hat, sigma2_hat and D_hat histories hold k1 + k2 + 2
\* entries and gll_history k1 + k2, the first fit's k1 + 1 entries before the
\* second's; and the early-stop comparison of a fit reads, as the previous
\* GLL, an entry the same fit recorded.
C10_RefitAppends ==
    /\ InFit =>
          /\ Len(b_hat_history) > hist_base
          /\ Len(sigma2_hat_history) = Len(b_hat_history)
          /\ Len(D_hat_history) = Len(b_hat_history)
          /\ cmp_index # 0 => (cmp_index > gll_base /\ cmp_index < Len(gll_history))
    /\ (InFit /\ AllOk(1)) =>
          /\ hist_base = fit_log[1].iters + 1
          /\ gll_base = fit_log[1].iters
    /\ (pc = "idle" /\ AllOk(2)) =>
          LET k1 == fit_log[1].iters
              k2 == fit_log[2].iters
          IN /\ Len(b_hat_history) = k1 + k2 + 2
             /\ Len(sigma2_hat_history) = k1 + k2 + 2
             /\ Len(D_hat_history) = k1 + k2 + 2
             /\ Len(gll_history) = k1 + k2
             /\ sigma2_hat_history[1] = 1
             /\ D_hat_history[1] = Eye
             /\ \A i \in 1..k1 :
                   /\ sigma2_hat_history[1 + i] = MStepSigma2(i)
                   /\ D_hat_history[1 + i] = MStepD(i)
             /\ sigma2_hat_history[k1 + 2] = 1
             /\ D_hat_history[k1 + 2] = Eye
             /\ \A i \in 1..k2 :
                   /\ sigma2_hat_history[k1 + 2 + i] = MStepSigma2(i)
                   /\ D_hat_history[k1 + 2 + i] = MStepD(i)

C10_Witness ==
    /\ pc = "idle"
    /\ AllOk(2)
    /\ gll_early_stop_threshold # None
    /\ fit_log[1].iters >= 2
    /\ fit_log[2].iters >= 2
    /\ Len(gll_history) = fit_log[1].iters + fit_log[2].iters

====
